---- MODULE Spec2Model ----
(***************************************************************************)
(* yara-gen: the generate command's n-gram extraction engine               *)
(* (src/src/yara_gen/extraction/ngram.py, driven by                        *)
(* src/src/yara_gen/commands/generate.py) as a state machine.              *)
(*                                                                         *)
(* Numbers.  Every float of the program (document frequencies, scores, the *)
(* score threshold, the benign penalty weight, min_df) is held as an exact *)
(* integer count of 1/Scale units, so 1.0 is Scale and 0.1 is Scale \div   *)
(* 10.  Scale is a multiple of every sample count the bounds allow, so the *)
(* divisions below are exact.                                              *)
(*                                                                         *)
(* Text.  A text is a sequence of one-character strings.  A raw document   *)
(* is a sequence of raw words (the words of the text, split at single      *)
(* spaces); a phrase is the text obtained by joining tokens with " ".      *)
(*                                                                         *)
(* Specifications.  Spec, SpecRerun and SpecScenarioA run extract;         *)
(* SpecGenerate runs the generate command around the extractor (factory,   *)
(* stub engine, deduplication, writer); SpecConfig runs the configuration  *)
(* merge of cli/commands/generate.py; SpecPrepare runs the write loop of   *)
(* the prepare command.  Each leaves the others' variables at their idle   *)
(* values.                                                                 *)
(***************************************************************************)
EXTENDS Integers, Sequences, FiniteSets, TLC

VARIABLES
    pc,              \* position in generate.run / NgramExtractor.extract
    config,          \* the NgramConfig handed to the extractor
    adversarial,     \* the adversarial TextSample sequence
    benign,          \* the benign TextSample sequence
    result,          \* how extract ended: "none", "returned" or "raised"
    feature_names,   \* vectorizer.get_feature_names_out(): sorted phrases
    X_adv,           \* X_adv[d][i]: entry of the document-term matrix
    freq_adv,        \* freq_adv[i]
    freq_benign,     \* freq_benign[i]
    scores,          \* scores[i]
    candidates,      \* the candidate list of extract (threshold, subsumption)
    visit,           \* _filter_subsumed: the sorted list being walked
    kept,            \* _filter_subsumed: kept
    covered_mask,    \* _greedy_set_cover: covered_mask
    selected,        \* _greedy_set_cover: selected
    round,           \* _greedy_set_cover: iterations of range(MAX_RULES) begun
    rules,           \* the list extract returns
    run,             \* which of two identical runs is executing (1 or 2)
    first_rules,     \* the rule list of run 1, kept for comparison
    cmd_pc,          \* position in commands/generate.py run ("idle": not run)
    engine,          \* args.engine
    extractor,       \* what get_extractor returned: class and config held
    error,           \* the exception that ended run, if any
    stub_count,      \* StubExtractor.extract: count, samples consumed so far
    extracted,       \* the list extractor.extract returned
    cmd_rules,       \* the local "rules" of run
    existing_rules,  \* args.existing_rules: "not_given", "missing", "present"
    existing_payloads, \* what parse_existing_rules returns for the file
    written,         \* the rule lists handed to YaraWriter.write, in order
    exit_code,       \* -1 while running, 0 on return, 1 on sys.exit(1)
    gen_args,        \* args.threshold and args.mode of commands/generate.py
    cfg_pc,          \* position in cli/commands/generate.py run ("idle": not run)
    file_config,     \* what load_config(config_path) returns, by dotted key
    set_args,        \* args.set: the --set overrides in command-line order
    cli_args,        \* args: the explicit flags of the generate command
    raw_config,      \* the local raw_config of run, by dotted key
    app_config,      \* AppConfig(**raw_config), by dotted key
    engine_type,     \* the engine name handed to get_engine
    prep_pc,         \* position in commands/prepare.py run ("idle": not run)
    stream,          \* the samples the adapter's stream yields, in order
    prep_args,       \* args.limit of the prepare command
    pulled,          \* how many samples the write loop took from the stream
    prep_count,      \* the local count of run
    out_file,        \* the lines of the output file
    prep_exit        \* -1 while running, 0 on return, 1 on sys.exit(1)

vars == <<pc, config, adversarial, benign, result, feature_names, X_adv,
          freq_adv, freq_benign, scores, candidates, visit, kept,
          covered_mask, selected, round, rules, run, first_rules,
          cmd_pc, engine, extractor, error, stub_count, extracted, cmd_rules,
          existing_rules, existing_payloads, written, exit_code, gen_args,
          cfg_pc, file_config, set_args, cli_args, raw_config, app_config,
          engine_type,
          prep_pc, stream, prep_args, pulled, prep_count, out_file, prep_exit>>

\* The state of NgramExtractor.extract
extractVars == <<pc, result, feature_names, X_adv, freq_adv, freq_benign,
                 scores, candidates, visit, kept, covered_mask, selected,
                 round, rules, run, first_rules>>

\* The state of the generate command around the extractor
commandVars == <<cmd_pc, engine, extractor, error, stub_count, extracted,
                 cmd_rules, existing_rules, existing_payloads, written,
                 exit_code, gen_args>>

\* The state of the configuration-driven generate command
configVars == <<cfg_pc, file_config, set_args, cli_args, raw_config,
                app_config, engine_type>>

\* The state of the prepare command
prepareVars == <<prep_pc, stream, prep_args, pulled, prep_count, out_file,
                 prep_exit>>

-----------------------------------------------------------------------------
(* Bounds of the model *)

MaxAdv == 2
MaxBenign == 1

-----------------------------------------------------------------------------
(* Fixed-point unit and program constants *)

Scale == 12 * 100

\* MAX_RULES = 50 in _greedy_set_cover
MAX_RULES == 50

\* min_df=0.01 passed to CountVectorizer
VectorizerMinDf == Scale \div 100

\* the 0.95 of "long_cand.score >= short_cand.score * 0.95"
SubsumeFactor == (95 * Scale) \div 100

\* NGramSettings.THRESHOLD_STRICT = 0.1
THRESHOLD_STRICT == Scale \div 10

\* NGramSettings.THRESHOLD_LOOSE = 0.01
THRESHOLD_LOOSE == Scale \div 100

\* NGramSettings.MIN_DOCUMENT_FREQ = 0.01
MIN_DOCUMENT_FREQ == Scale \div 100

-----------------------------------------------------------------------------
(* Text *)

LowercaseLetters ==
    <<"a", "b", "c", "d", "e", "f", "g", "h", "i", "j", "k", "l", "m",
      "n", "o", "p", "q", "r", "s", "t", "u", "v", "w", "x", "y", "z">>

\* Unicode code points, the order Python compares strings by.
CharCode(c) ==
    CASE c = " " -> 32
      [] c = "A" -> 65
      [] c = "B" -> 66
      [] OTHER -> 96 + CHOOSE k \in 1..Len(LowercaseLetters) :
                          LowercaseLetters[k] = c

\* str.lower() on one character (lowercase=True)
LowerChar(c) ==
    CASE c = "A" -> "a"
      [] c = "B" -> "b"
      [] OTHER -> c

LowerWord(w) == [k \in 1..Len(w) |-> LowerChar(w[k])]

\* The default token_pattern r"(?u)\b\w\w+\b": runs of two or more word
\* characters; a one-character word yields no token.
IsToken(w) == Len(w) >= 2

\* build_analyzer() of the "word" analyzer: lowercase, then tokenize.
Tokenize(words) == SelectSeq([k \in 1..Len(words) |-> LowerWord(words[k])], IsToken)

RECURSIVE Join(_)
\* " ".join(tokens)
Join(tokens) ==
    IF Len(tokens) = 0 THEN <<>>
    ELSE IF Len(tokens) = 1 THEN tokens[1]
    ELSE tokens[1] \o <<" ">> \o Join(Tail(tokens))

\* The windows with the upper bound of ngram_range taken as exclusive of
\* nothing: lengths up to max_n + 1
NgramWindowsWide(tokens, min_n, max_n) ==
    {w \in (min_n..(max_n + 1)) \X (1..Len(tokens)) :
        w[2] + w[1] - 1 <= Len(tokens)}

\* Window positions <<n, i>> of the word n-grams of a token list
NgramWindows(tokens, min_n, max_n) ==
    {w \in (min_n..max_n) \X (1..Len(tokens)) : w[2] + w[1] - 1 <= Len(tokens)}

WindowText(tokens, w) == Join(SubSeq(tokens, w[2], w[2] + w[1] - 1))

\* The distinct n-grams of one document
DocNgrams(tokens, min_n, max_n) ==
    {WindowText(tokens, w) : w \in NgramWindows(tokens, min_n, max_n)}

\* How many times a phrase occurs in one document (the raw term count)
TermCount(tokens, phrase, min_n, max_n) ==
    Cardinality({w \in NgramWindows(tokens, min_n, max_n) :
                    WindowText(tokens, w) = phrase})

\* binary=False: the raw count is kept
BinaryOff(count) == count

\* binary=True: every non-zero count is set to 1
Binary(count) == IF count > 0 THEN 1 ELSE 0

\* Python's "short in long" on strings
IsSubstring(short, long) ==
    \E k \in 1..(Len(long) - Len(short) + 1) :
        SubSeq(long, k, k + Len(short) - 1) = short

\* Python's s < t on strings
LexLess(s, t) ==
    \E k \in 1..(Len(s) + 1) :
        /\ k <= Len(t)
        /\ SubSeq(s, 1, k - 1) = SubSeq(t, 1, k - 1)
        /\ \/ k = Len(s) + 1
           \/ /\ k <= Len(s)
              /\ CharCode(s[k]) < CharCode(t[k])

RECURSIVE SortLex(_)
\* sorted(vocabulary): the feature order of CountVectorizer
SortLex(S) ==
    IF S = {} THEN <<>>
    ELSE LET m == CHOOSE x \in S : \A y \in S \ {x} : LexLess(x, y)
         IN <<m>> \o SortLex(S \ {m})

RECURSIVE SumSeq(_)
SumSeq(s) == IF Len(s) = 0 THEN 0 ELSE Head(s) + SumSeq(Tail(s))

-----------------------------------------------------------------------------
(* Inputs *)

W_AB == <<"A", "B">>
W_abc == <<"a", "b", "c">>
W_cd == <<"c", "d">>
W_x == <<"x">>

\* TextSample records the adapters can hand over: "AB x cd" (upper case and
\* a one-letter word), "abc abc" (a repeated word that holds "ab") and "cd"
\* (too short for a 2-gram)
SamplePool ==
    { [text |-> <<W_AB, W_x, W_cd>>, source |-> "feed_a"],
      [text |-> <<W_abc, W_abc>>, source |-> "feed_b"],
      [text |-> <<W_cd>>, source |-> "feed_a"] }

\* The words of the documented scenario "A"
W_ignore == <<"i", "g", "n", "o", "r", "e">>
W_previous == <<"p", "r", "e", "v", "i", "o", "u", "s">>
W_instructions == <<"i", "n", "s", "t", "r", "u", "c", "t", "i", "o", "n", "s">>
W_now == <<"n", "o", "w">>
W_please == <<"p", "l", "e", "a", "s", "e">>
W_the == <<"t", "h", "e">>
W_email == <<"e", "m", "a", "i", "l">>

\* adversarial = ["ignore previous instructions now",
\*                "ignore previous instructions now please"]
ScenarioA_Adversarial ==
    << [text |-> <<W_ignore, W_previous, W_instructions, W_now>>,
        source |-> "feed_a"],
       [text |-> <<W_ignore, W_previous, W_instructions, W_now, W_please>>,
        source |-> "feed_a"] >>

\* benign = ["please ignore the previous email"]
ScenarioA_Benign ==
    << [text |-> <<W_please, W_ignore, W_the, W_previous, W_email>>,
        source |-> "feed_b"] >>

\* min_ngram=2, max_ngram=4, min_document_frequency=0.5,
\* score_threshold=0.1, benign_penalty_weight=1.0
ScenarioA_Config ==
    [ score_threshold |-> THRESHOLD_STRICT,
      max_rules_per_run |-> MAX_RULES,
      rule_date |-> "2023-01-01",
      min_ngram_length |-> 2,
      max_ngram_length |-> 4,
      benign_penalty_weight |-> Scale,
      min_document_frequency |-> Scale \div 2 ]

SeqsUpTo(S, n) == UNION {[1..k -> S] : k \in 0..n}

\* The command-line values generate.run builds the NgramConfig from
ConfigSpace ==
    [ score_threshold : {0, THRESHOLD_STRICT, Scale \div 2},
      max_rules_per_run : {1, MAX_RULES},
      rule_date : {"2023-01-01"},
      min_ngram_length : {1, 2},
      max_ngram_length : {1, 2},
      benign_penalty_weight : {0, Scale},
      min_document_frequency : {MIN_DOCUMENT_FREQ, Scale} ]

-----------------------------------------------------------------------------
(* Vectorizer (CountVectorizer as configured in extract) *)

AdvTokens(d) == Tokenize(adversarial[d].text)
BenignTokens(d) == Tokenize(benign[d].text)

\* Document frequency of a phrase in the adversarial texts
AdvDocCount(phrase, min_n, max_n) ==
    Cardinality({d \in 1..Len(adversarial) :
                    phrase \in DocNgrams(AdvTokens(d), min_n, max_n)})

\* fit on the adversarial and the benign texts together
VocabularyBothCorpora(min_n, max_n) ==
    UNION {DocNgrams(AdvTokens(d), min_n, max_n) : d \in 1..Len(adversarial)}
      \cup
    UNION {DocNgrams(BenignTokens(d), min_n, max_n) : d \in 1..Len(benign)}

\* fit: every n-gram of the adversarial texts whose document count is at
\* least min_df * n_doc
Vocabulary(min_n, max_n) ==
    LET all == UNION {DocNgrams(AdvTokens(d), min_n, max_n) :
                        d \in 1..Len(adversarial)}
    IN {p \in all :
           AdvDocCount(p, min_n, max_n) * Scale
               >= VectorizerMinDf * Len(adversarial)}

\* fit_transform raises ValueError: bad ngram_range, or empty vocabulary
VectorizerRaises(min_n, max_n) ==
    \/ min_n > max_n
    \/ Vocabulary(min_n, max_n) = {}

\* transform: one row per document, one column per feature
Transform(docTokens, features, min_n, max_n) ==
    [d \in 1..Len(docTokens) |->
        [i \in 1..Len(features) |->
            Binary(TermCount(docTokens[d], features[i], min_n, max_n))]]

\* np.array(X.sum(axis=0)).flatten()
ColumnSums(X, ncols) ==
    [i \in 1..ncols |-> SumSeq([d \in 1..Len(X) |-> X[d][i]])]

-----------------------------------------------------------------------------
(* State machine *)

\* A key the dictionary does not hold, and a flag that was not given
Absent == "<absent>"
NoneValue == "<None>"

\* The dotted keys of the configuration the model follows
ConfigKeys ==
    {"output_path", "adversarial_adapter.type", "benign_adapter.type",
     "engine.type", "engine.rule_date", "engine.max_rules_per_run"}

\* The configuration-driven command is not running
\* args.limit when --limit is not given (None)
NoLimit == -1

PrepareIdle ==
    /\ prep_pc = "idle"
    /\ stream = <<>>
    /\ prep_args = [limit |-> NoLimit]
    /\ pulled = 0
    /\ prep_count = 0
    /\ out_file = <<>>
    /\ prep_exit = -1

ConfigIdle ==
    /\ cfg_pc = "idle"
    /\ file_config = [k \in ConfigKeys |-> Absent]
    /\ set_args = <<>>
    /\ cli_args = [output |-> NoneValue, adversarial_adapter |-> NoneValue,
                   benign_adapter |-> NoneValue, engine |-> NoneValue,
                   rule_date |-> NoneValue]
    /\ raw_config = [k \in ConfigKeys |-> Absent]
    /\ app_config = [k \in ConfigKeys |-> Absent]
    /\ engine_type = NoneValue

\* args.threshold when --threshold is not given (None)
NoThreshold == -1

NoExtractor == [class |-> "none", config |-> "none"]
NoError == [type |-> "none", name |-> "none"]

\* The generate command is not running: extract is called on its own
CommandIdle ==
    /\ cmd_pc = "idle"
    /\ engine = "ngram"
    /\ extractor = NoExtractor
    /\ error = NoError
    /\ stub_count = 0
    /\ extracted = <<>>
    /\ cmd_rules = <<>>
    /\ existing_rules = "not_given"
    /\ existing_payloads = {}
    /\ written = <<>>
    /\ exit_code = -1
    /\ gen_args = [threshold |-> NoThreshold, mode |-> "strict"]

\* Nothing of extract has run
NoLocals ==
    /\ result = "none"
    /\ feature_names = <<>>
    /\ X_adv = <<>>
    /\ freq_adv = <<>>
    /\ freq_benign = <<>>
    /\ scores = <<>>
    /\ candidates = <<>>
    /\ visit = <<>>
    /\ kept = <<>>
    /\ covered_mask = <<>>
    /\ selected = <<>>
    /\ round = 0
    /\ rules = <<>>
    /\ run = 1
    /\ first_rules = <<>>

Init ==
    /\ pc = "configure"
    /\ config \in ConfigSpace
    /\ adversarial \in SeqsUpTo(SamplePool, MaxAdv)
    /\ benign \in SeqsUpTo(SamplePool, MaxBenign)
    /\ NoLocals
    /\ CommandIdle
    /\ ConfigIdle
    /\ PrepareIdle

\* The documented scenario "A" and its neighbours: the two adversarial
\* documents in any order and number, the benign document present or not,
\* the threshold and the penalty weight at the scenario's value or another.
InitScenarioA ==
    /\ pc = "configure"
    /\ config \in {[ScenarioA_Config EXCEPT !.score_threshold = t,
                                            !.benign_penalty_weight = w] :
                       t \in {THRESHOLD_STRICT, Scale \div 2},
                       w \in {0, Scale}}
    /\ adversarial \in UNION {[1..k -> {ScenarioA_Adversarial[1],
                                         ScenarioA_Adversarial[2]}] :
                                 k \in 1..2}
    /\ benign \in {<<>>, ScenarioA_Benign}
    /\ NoLocals
    /\ CommandIdle
    /\ ConfigIdle
    /\ PrepareIdle

\* generate.run: NgramConfig(...) is built from the arguments; the model
\* classes declare no validators, so construction always succeeds.
Configure ==
    /\ pc = "configure"
    /\ pc' = "materialize"
    /\ UNCHANGED <<config, adversarial, benign, result, feature_names, X_adv,
                   freq_adv, freq_benign, scores, candidates, visit, kept,
                   covered_mask, selected, round, rules, run, first_rules>>
    /\ UNCHANGED commandVars
    /\ UNCHANGED configVars
    /\ UNCHANGED prepareVars

\* extract, "1. Materialize Data": an empty adversarial list returns [].
Materialize ==
    /\ pc = "materialize"
    /\ IF Len(adversarial) = 0
       THEN /\ pc' = "done"
            /\ result' = "returned"
            /\ rules' = <<>>
       ELSE /\ pc' = "vectorize"
            /\ UNCHANGED <<result, rules>>
    /\ UNCHANGED <<config, adversarial, benign, feature_names, X_adv,
                   freq_adv, freq_benign, scores, candidates, visit, kept,
                   covered_mask, selected, round, run, first_rules>>
    /\ UNCHANGED commandVars
    /\ UNCHANGED configVars
    /\ UNCHANGED prepareVars

\* extract, "2. Vectorization & Counting": fit_transform on the adversarial
\* texts; a ValueError returns [].
Vectorize ==
    /\ pc = "vectorize"
    /\ LET min_n == config.min_ngram_length
           max_n == config.max_ngram_length
       IN IF VectorizerRaises(min_n, max_n)
          THEN /\ pc' = "done"
               /\ result' = "returned"
               /\ rules' = <<>>
               /\ UNCHANGED <<feature_names, X_adv>>
          ELSE LET features == SortLex(Vocabulary(min_n, max_n))
                   advTokens == [d \in 1..Len(adversarial) |-> AdvTokens(d)]
               IN /\ feature_names' = features
                  /\ X_adv' = Transform(advTokens, features, min_n, max_n)
                  /\ pc' = "score"
                  /\ UNCHANGED <<result, rules>>
    /\ UNCHANGED <<config, adversarial, benign, freq_adv, freq_benign, scores,
                   candidates, visit, kept, covered_mask, selected, round,
                   run, first_rules>>
    /\ UNCHANGED commandVars
    /\ UNCHANGED configVars
    /\ UNCHANGED prepareVars

\* The divisor with one added to keep it from being zero
NBenignSmoothed(benign_texts) == Len(benign_texts) + 1

\* n_benign = len(benign_texts) if benign_texts else 1
NBenign(benign_texts) == IF Len(benign_texts) > 0 THEN Len(benign_texts) ELSE 1

\* The same with np.ones in place of np.zeros for an empty benign set
BenignCountsOnes(benign_tokens, features, min_n, max_n) ==
    IF Len(benign_tokens) > 0
    THEN ColumnSums(Transform(benign_tokens, features, min_n, max_n),
                    Len(features))
    ELSE [i \in 1..Len(features) |-> 1]

\* "3. Benign Cross-Reference": column sums of the benign matrix, or
\* np.zeros(len(feature_names)) when there are no benign texts
BenignCounts(benign_tokens, features, min_n, max_n) ==
    IF Len(benign_tokens) > 0
    THEN ColumnSums(Transform(benign_tokens, features, min_n, max_n),
                    Len(features))
    ELSE [i \in 1..Len(features) |-> 0]

\* counts / n
Frequency(count, n) == (count * Scale) \div n

\* scores = freq_adv - (benign_penalty_weight * freq_benign)
DifferentialScore(fa, fb, weight) == fa - ((weight * fb) \div Scale)

\* extract, "3. Benign Cross-Reference" and "4. Differential Scoring"
Score ==
    /\ pc = "score"
    /\ LET min_n == config.min_ngram_length
           max_n == config.max_ngram_length
           n_adv == Len(adversarial)
           n_benign == NBenign(benign)
           benign_tokens == [d \in 1..Len(benign) |-> BenignTokens(d)]
           benign_counts == BenignCounts(benign_tokens, feature_names,
                                         min_n, max_n)
           adv_counts == ColumnSums(X_adv, Len(feature_names))
           fa == [i \in 1..Len(feature_names) |-> Frequency(adv_counts[i], n_adv)]
           fb == [i \in 1..Len(feature_names) |->
                     Frequency(benign_counts[i], n_benign)]
       IN /\ freq_adv' = fa
          /\ freq_benign' = fb
          /\ scores' = [i \in 1..Len(feature_names) |->
                           DifferentialScore(fa[i], fb[i],
                                             config.benign_penalty_weight)]
    /\ pc' = "threshold"
    /\ UNCHANGED <<config, adversarial, benign, result, feature_names, X_adv,
                   candidates, visit, kept, covered_mask, selected, round,
                   rules, run, first_rules>>
    /\ UNCHANGED commandVars
    /\ UNCHANGED configVars
    /\ UNCHANGED prepareVars

\* The mask with a strict comparison
ThresholdMaskStrict(score, threshold) == score > threshold

\* threshold_mask = scores >= self.config.score_threshold
ThresholdMask(score, threshold) == score >= threshold

RECURSIVE PassingIndices(_, _, _)
\* np.where(threshold_mask)[0], scanned from column i on
PassingIndices(i, scs, threshold) ==
    IF i > Len(scs) THEN <<>>
    ELSE (IF ThresholdMask(scs[i], threshold) THEN <<i>> ELSE <<>>)
             \o PassingIndices(i + 1, scs, threshold)

\* The threshold step without the "if not candidates" guard: the remaining
\* stages run on whatever passed
ThresholdNoGuard ==
    /\ pc = "threshold"
    /\ LET passing_indices == PassingIndices(1, scores, config.score_threshold)
       IN candidates' = [k \in 1..Len(passing_indices) |->
                            [text |-> feature_names[passing_indices[k]],
                             score |-> scores[passing_indices[k]],
                             original_index |-> passing_indices[k]]]
    /\ pc' = "subsume_sort"
    /\ UNCHANGED <<config, adversarial, benign, result, feature_names, X_adv,
                   freq_adv, freq_benign, scores, visit, kept, covered_mask,
                   selected, round, rules, run, first_rules>>
    /\ UNCHANGED commandVars
    /\ UNCHANGED configVars
    /\ UNCHANGED prepareVars

\* extract, "Filter by threshold": the passing candidates, or [] if none
Threshold ==
    /\ pc = "threshold"
    /\ LET passing_indices == PassingIndices(1, scores, config.score_threshold)
           cands == [k \in 1..Len(passing_indices) |->
                        [text |-> feature_names[passing_indices[k]],
                         score |-> scores[passing_indices[k]],
                         original_index |-> passing_indices[k]]]
       IN /\ candidates' = cands
          /\ IF Len(cands) = 0
             THEN /\ pc' = "done"
                  /\ result' = "returned"
                  /\ rules' = <<>>
             ELSE /\ pc' = "subsume_sort"
                  /\ UNCHANGED <<result, rules>>
    /\ UNCHANGED <<config, adversarial, benign, feature_names, X_adv,
                   freq_adv, freq_benign, scores, visit, kept, covered_mask,
                   selected, round, run, first_rules>>
    /\ UNCHANGED commandVars
    /\ UNCHANGED configVars
    /\ UNCHANGED prepareVars

\* The insertion of a sort that is not stable: x goes before the elements
\* of its own length
InsertByLengthDescUnstable(sorted, x) ==
    LET notlonger == {j \in 1..Len(sorted) : Len(sorted[j].text) <= Len(x.text)}
        at == IF notlonger = {} THEN Len(sorted) + 1
              ELSE CHOOSE j \in notlonger : \A k \in notlonger : j <= k
    IN SubSeq(sorted, 1, at - 1) \o <<x>> \o SubSeq(sorted, at, Len(sorted))

\* Where a stable sort by descending length puts x in an already sorted list:
\* before the first element strictly shorter than x.
InsertByLengthDesc(sorted, x) ==
    LET shorter == {j \in 1..Len(sorted) : Len(sorted[j].text) < Len(x.text)}
        at == IF shorter = {} THEN Len(sorted) + 1
              ELSE CHOOSE j \in shorter : \A k \in shorter : j <= k
    IN SubSeq(sorted, 1, at - 1) \o <<x>> \o SubSeq(sorted, at, Len(sorted))

RECURSIVE SortFrom(_, _)
SortFrom(sorted, rest) ==
    IF Len(rest) = 0 THEN sorted
    ELSE SortFrom(InsertByLengthDesc(sorted, Head(rest)), Tail(rest))

\* Ascending variant of the same stable sort (reverse=True left out)
InsertByLengthAsc(sorted, x) ==
    LET longer == {j \in 1..Len(sorted) : Len(sorted[j].text) > Len(x.text)}
        at == IF longer = {} THEN Len(sorted) + 1
              ELSE CHOOSE j \in longer : \A k \in longer : j <= k
    IN SubSeq(sorted, 1, at - 1) \o <<x>> \o SubSeq(sorted, at, Len(sorted))

RECURSIVE SortFromAsc(_, _)
SortFromAsc(sorted, rest) ==
    IF Len(rest) = 0 THEN sorted
    ELSE SortFromAsc(InsertByLengthAsc(sorted, Head(rest)), Tail(rest))

SortedByLengthAsc(cands) == SortFromAsc(<<>>, cands)

\* sorted(candidates, key=lambda x: len(x["text"]), reverse=True)
SortedByLength(cands) == SortFrom(<<>>, cands)

\* The score test without the 0.95 allowance: the longer phrase has to
\* score strictly higher
ScoreDominatesStrict(long_score, short_score) == long_score > short_score

\* long_cand["score"] >= (short_cand["score"] * 0.95)
ScoreDominates(long_score, short_score) ==
    long_score * Scale >= short_score * SubsumeFactor

\* The inner loop without the score test: containment alone subsumes
IsSubsumedAnyScore(short_cand, keptList) ==
    \E k \in 1..Len(keptList) :
        IsSubstring(short_cand.text, keptList[k].text)

\* The inner loop of _filter_subsumed: is_subsumed for one candidate
IsSubsumed(short_cand, keptList) ==
    \E k \in 1..Len(keptList) :
        /\ IsSubstring(short_cand.text, keptList[k].text)
        /\ ScoreDominates(keptList[k].score, short_cand.score)

RECURSIVE FilterWalk(_, _)
\* The outer loop of _filter_subsumed from the head of toVisit on
FilterWalk(toVisit, keptList) ==
    IF Len(toVisit) = 0 THEN keptList
    ELSE FilterWalk(Tail(toVisit),
                    IF IsSubsumed(Head(toVisit), keptList) THEN keptList
                    ELSE Append(keptList, Head(toVisit)))

\* _filter_subsumed(candidates) as a function of its argument
FilterSubsumed(cands) == FilterWalk(SortedByLength(cands), <<>>)

\* _filter_subsumed: the sort, and kept = []
FilterSubsumedSort ==
    /\ pc = "subsume_sort"
    /\ visit' = SortedByLength(candidates)
    /\ kept' = <<>>
    /\ pc' = "subsume"
    /\ UNCHANGED <<config, adversarial, benign, result, feature_names, X_adv,
                   freq_adv, freq_benign, scores, candidates, covered_mask,
                   selected, round, rules, run, first_rules>>
    /\ UNCHANGED commandVars
    /\ UNCHANGED configVars
    /\ UNCHANGED prepareVars

\* _filter_subsumed: one pass of the outer loop, on the next candidate
FilterSubsumedStep ==
    /\ pc = "subsume"
    /\ Len(visit) > 0
    /\ LET short_cand == Head(visit)
       IN kept' = IF IsSubsumed(short_cand, kept) THEN kept
                  ELSE Append(kept, short_cand)
    /\ visit' = Tail(visit)
    /\ UNCHANGED <<pc, config, adversarial, benign, result, feature_names,
                   X_adv, freq_adv, freq_benign, scores, candidates,
                   covered_mask, selected, round, rules, run, first_rules>>
    /\ UNCHANGED commandVars
    /\ UNCHANGED configVars
    /\ UNCHANGED prepareVars

\* _filter_subsumed returns kept; extract assigns it to candidates
FilterSubsumedReturn ==
    /\ pc = "subsume"
    /\ Len(visit) = 0
    /\ candidates' = kept
    /\ pc' = "cover_init"
    /\ UNCHANGED <<config, adversarial, benign, result, feature_names, X_adv,
                   freq_adv, freq_benign, scores, visit, kept, covered_mask,
                   selected, round, rules, run, first_rules>>
    /\ UNCHANGED commandVars
    /\ UNCHANGED configVars
    /\ UNCHANGED prepareVars

\* candidate_vectors[i]: column original_index of X_adv as booleans
CandidateVector(cand) ==
    [d \in 1..Len(X_adv) |-> X_adv[d][cand.original_index] > 0]

\* i in [x["idx"] for x in selected]
AlreadySelected(i, sel) == \E k \in 1..Len(sel) : sel[k].idx = i

\* hits: the vector with the uncovered mask left off (every hit counts)
NewHitsUnmasked(cand, covered) ==
    Cardinality({d \in 1..Len(covered) : CandidateVector(cand)[d]})

\* new_hits = np.sum(hits & current_uncovered)
NewHits(cand, covered) ==
    Cardinality({d \in 1..Len(covered) :
                    CandidateVector(cand)[d] /\ ~covered[d]})

RECURSIVE BestScanNaive(_, _, _, _, _)
\* The scan as a plain "largest coverage" pick: every hit counts and
\* candidates already selected are not skipped.
BestScanNaive(i, best_candidate_idx, best_new_coverage, covered, sel) ==
    IF i > Len(candidates)
    THEN [idx |-> best_candidate_idx, coverage |-> best_new_coverage]
    ELSE LET new_hits == NewHitsUnmasked(candidates[i], covered)
         IN IF new_hits > best_new_coverage
            THEN BestScanNaive(i + 1, i, new_hits, covered, sel)
            ELSE BestScanNaive(i + 1, best_candidate_idx, best_new_coverage,
                               covered, sel)

RECURSIVE BestScan(_, _, _, _, _)
\* The inner "for i, _ in enumerate(candidates)" loop from position i on,
\* carrying best_candidate_idx and best_new_coverage; -1 is "none".
BestScan(i, best_candidate_idx, best_new_coverage, covered, sel) ==
    IF i > Len(candidates)
    THEN [idx |-> best_candidate_idx, coverage |-> best_new_coverage]
    ELSE IF AlreadySelected(i, sel)
    THEN BestScan(i + 1, best_candidate_idx, best_new_coverage, covered, sel)
    ELSE LET new_hits == NewHits(candidates[i], covered)
         IN IF new_hits > best_new_coverage
            THEN BestScan(i + 1, i, new_hits, covered, sel)
            ELSE BestScan(i + 1, best_candidate_idx, best_new_coverage,
                          covered, sel)

BestCandidate(covered, sel) == BestScan(1, -1, 0, covered, sel)

\* Every way one pass of "for _ in range(MAX_RULES)" ends the loop: the
\* range is used up, nothing is uncovered, or no candidate adds coverage.
GreedyLoopEnds ==
    \/ round >= MAX_RULES
    \/ \A d \in 1..Len(covered_mask) : covered_mask[d]
    \/ LET best == BestCandidate(covered_mask, selected)
       IN best.idx = -1 \/ best.coverage = 0

\* _greedy_set_cover: covered_mask, selected and the candidate vectors
GreedyInit ==
    /\ pc = "cover_init"
    /\ covered_mask' = [d \in 1..Len(adversarial) |-> FALSE]
    /\ selected' = <<>>
    /\ round' = 0
    /\ pc' = "cover"
    /\ UNCHANGED <<config, adversarial, benign, result, feature_names, X_adv,
                   freq_adv, freq_benign, scores, candidates, visit, kept,
                   rules, run, first_rules>>
    /\ UNCHANGED commandVars
    /\ UNCHANGED configVars
    /\ UNCHANGED prepareVars

\* The commit with the winner taken from the candidates of largest gain in
\* no fixed order (as when they are walked in hash order)
GreedySelectAnyTie ==
    /\ pc = "cover"
    /\ ~GreedyLoopEnds
    /\ LET best == BestCandidate(covered_mask, selected)
       IN \E i \in 1..Len(candidates) :
            /\ ~AlreadySelected(i, selected)
            /\ NewHits(candidates[i], covered_mask) = best.coverage
            /\ selected' = Append(selected,
                                  [idx |-> i,
                                   text |-> candidates[i].text,
                                   score |-> candidates[i].score,
                                   original_index |-> candidates[i].original_index])
            /\ covered_mask' = [d \in 1..Len(covered_mask) |->
                                   covered_mask[d] \/ CandidateVector(candidates[i])[d]]
    /\ round' = round + 1
    /\ UNCHANGED <<pc, config, adversarial, benign, result, feature_names,
                   X_adv, freq_adv, freq_benign, scores, candidates, visit,
                   kept, rules, run, first_rules>>
    /\ UNCHANGED commandVars
    /\ UNCHANGED configVars
    /\ UNCHANGED prepareVars

\* The commit with the winner's position in the candidate list taken for
\* a vocabulary column: text and score are read from that column
GreedySelectByColumn ==
    /\ pc = "cover"
    /\ ~GreedyLoopEnds
    /\ LET best == BestCandidate(covered_mask, selected)
           cand == candidates[best.idx]
           hits == CandidateVector(cand)
       IN /\ selected' = Append(selected,
                                [idx |-> best.idx,
                                 text |-> feature_names[best.idx],
                                 score |-> scores[best.idx],
                                 original_index |-> best.idx])
          /\ covered_mask' = [d \in 1..Len(covered_mask) |->
                                 covered_mask[d] \/ hits[d]]
    /\ round' = round + 1
    /\ UNCHANGED <<pc, config, adversarial, benign, result, feature_names,
                   X_adv, freq_adv, freq_benign, scores, candidates, visit,
                   kept, rules, run, first_rules>>
    /\ UNCHANGED commandVars
    /\ UNCHANGED configVars
    /\ UNCHANGED prepareVars

\* _greedy_set_cover: one pass of the loop that commits a selection
GreedySelect ==
    /\ pc = "cover"
    /\ ~GreedyLoopEnds
    /\ LET best == BestCandidate(covered_mask, selected)
           cand == candidates[best.idx]
           hits == CandidateVector(cand)
       IN /\ selected' = Append(selected,
                                [idx |-> best.idx,
                                 text |-> cand.text,
                                 score |-> cand.score,
                                 original_index |-> cand.original_index])
          /\ covered_mask' = [d \in 1..Len(covered_mask) |->
                                 covered_mask[d] \/ hits[d]]
    /\ round' = round + 1
    /\ UNCHANGED <<pc, config, adversarial, benign, result, feature_names,
                   X_adv, freq_adv, freq_benign, scores, candidates, visit,
                   kept, rules, run, first_rules>>
    /\ UNCHANGED commandVars
    /\ UNCHANGED configVars
    /\ UNCHANGED prepareVars

\* _greedy_set_cover: the loop ends and selected is returned
GreedyReturn ==
    /\ pc = "cover"
    /\ GreedyLoopEnds
    /\ pc' = "build"
    /\ UNCHANGED <<config, adversarial, benign, result, feature_names, X_adv,
                   freq_adv, freq_benign, scores, candidates, visit, kept,
                   covered_mask, selected, round, rules, run, first_rules>>
    /\ UNCHANGED commandVars
    /\ UNCHANGED configVars
    /\ UNCHANGED prepareVars

\* The rule arguments with the score left at 1.0 for every candidate
BuildFromNgramUnitScore(c) ==
    [text |-> c.text,
     score |-> Scale,
     source |-> adversarial[1].source,
     rule_date |-> config.rule_date]

\* The arguments of RuleBuilder.build_from_ngram for one selected candidate
BuildFromNgram(c) ==
    [text |-> c.text,
     score |-> c.score,
     source |-> adversarial[1].source,
     rule_date |-> config.rule_date]

\* extract, "7. Convert to GeneratedRule objects"
BuildRules ==
    /\ pc = "build"
    /\ rules' = [k \in 1..Len(selected) |-> BuildFromNgram(selected[k])]
    /\ result' = "returned"
    /\ pc' = "done"
    /\ UNCHANGED <<config, adversarial, benign, feature_names, X_adv,
                   freq_adv, freq_benign, scores, candidates, visit, kept,
                   covered_mask, selected, round, run, first_rules>>
    /\ UNCHANGED commandVars
    /\ UNCHANGED configVars
    /\ UNCHANGED prepareVars

\* A second call of extract on the same extractor with the same samples:
\* every local of the first call is gone, its rule list is kept aside.
Rerun ==
    /\ pc = "done"
    /\ run = 1
    /\ run' = 2
    /\ first_rules' = rules
    /\ pc' = "materialize"
    /\ result' = "none"
    /\ feature_names' = <<>>
    /\ X_adv' = <<>>
    /\ freq_adv' = <<>>
    /\ freq_benign' = <<>>
    /\ scores' = <<>>
    /\ candidates' = <<>>
    /\ visit' = <<>>
    /\ kept' = <<>>
    /\ covered_mask' = <<>>
    /\ selected' = <<>>
    /\ round' = 0
    /\ rules' = <<>>
    /\ UNCHANGED <<config, adversarial, benign>>
    /\ UNCHANGED commandVars
    /\ UNCHANGED configVars
    /\ UNCHANGED prepareVars

Next ==
    \/ Configure
    \/ Materialize
    \/ Vectorize
    \/ Score
    \/ Threshold
    \/ FilterSubsumedSort
    \/ FilterSubsumedStep
    \/ FilterSubsumedReturn
    \/ GreedyInit
    \/ GreedySelect
    \/ GreedyReturn
    \/ BuildRules

Spec == Init /\ [][Next]_vars

NextRerun == Next \/ Rerun

\* Two consecutive runs on identical inputs and configuration
SpecRerun == Init /\ [][NextRerun]_vars

\* extract on the documented scenario "A"
SpecScenarioA == InitScenarioA /\ [][Next]_vars

-----------------------------------------------------------------------------
(* The generate command around the extractor (commands/generate.py run) *)

MaxMockRules == 2

\* Engine names handed to get_extractor: the two registered ones and one
\* that is not (as a configuration file or a direct caller can give)
EngineNames == {"ngram", "stub", "chaos_engine"}

\* The map as its comment describes it: "ngram" still served by the stub
extractor_map_stub_for_ngram ==
    [stub |-> "StubExtractor", ngram |-> "StubExtractor"]

\* extractor_map of get_extractor
extractor_map == [stub |-> "StubExtractor", ngram |-> "NgramExtractor"]

\* get_extractor(name, config): the extractor built, or the ValueError
get_extractor(name, cfg) ==
    IF name \notin DOMAIN extractor_map
    THEN [raised |-> TRUE,
          error |-> [type |-> "ValueError", name |-> name],
          extractor |-> NoExtractor]
    ELSE [raised |-> FALSE,
          error |-> NoError,
          extractor |-> [class |-> extractor_map[name], config |-> cfg]]

\* GeneratedRule: name, tags, score and the values of its strings
StubRule ==
    [name |-> "stub_rule_001",
     tags |-> <<"stub", "test">>,
     score |-> Scale,
     strings |-> <<"test_string_stub">>]

\* The stub answering an empty stream with no rule
StubRulesIfAny(n) == IF n = 0 THEN <<>> ELSE <<StubRule>>

\* The list StubExtractor.extract returns after count samples
StubRules(n) == <<StubRule>>

\* Rules an n-gram extractor may hand back: one whose string is new, one
\* whose string is known, one with a known string among new ones
MockRulePool ==
    { [name |-> "auto_duplicate", tags |-> <<>>, score |-> (9 * Scale) \div 10,
       strings |-> <<"known_malware">>],
      [name |-> "auto_new_rule", tags |-> <<>>, score |-> (9 * Scale) \div 10,
       strings |-> <<"zero_day_exploit">>],
      [name |-> "auto_mixed", tags |-> <<>>, score |-> (9 * Scale) \div 10,
       strings |-> <<"zero_day_exploit", "known_malware">>] }

\* Payload sets an existing rules file can hold
PayloadSets ==
    { {}, {"known_malware"}, {"known_malware", "zero_day_exploit"},
      {"test_string_stub"} }

\* The test with all() in place of any(): a rule goes only when every one
\* of its strings is known
IsDuplicateAll(r, payloads) ==
    \A k \in 1..Len(r.strings) : r.strings[k] \in payloads

\* any(s.value in existing_payloads for s in r.strings)
IsDuplicate(r, payloads) ==
    \E k \in 1..Len(r.strings) : r.strings[k] \in payloads

\* run is entered with its arguments parsed
InitGenerate ==
    /\ pc = "configure"
    /\ NoLocals
    /\ config \in {c \in ConfigSpace :
                       /\ c.max_rules_per_run = MAX_RULES
                       /\ c.min_ngram_length = 1
                       /\ c.max_ngram_length = 2
                       /\ c.benign_penalty_weight = Scale
                       /\ c.min_document_frequency = MIN_DOCUMENT_FREQ
                       /\ c.score_threshold = THRESHOLD_STRICT}
    /\ gen_args \in [threshold : {NoThreshold, 0, Scale \div 2},
                      mode : {"strict", "loose"}]
    /\ adversarial \in SeqsUpTo(SamplePool, MaxAdv)
    /\ benign \in {<<>>} \cup {<<b>> : b \in SamplePool}
    /\ cmd_pc = "configure"
    /\ engine \in EngineNames
    /\ extractor = NoExtractor
    /\ error = NoError
    /\ stub_count = 0
    /\ extracted = <<>>
    /\ cmd_rules = <<>>
    /\ \/ existing_rules \in {"not_given", "missing"} /\ existing_payloads = {}
       \/ existing_rules = "present" /\ existing_payloads \in PayloadSets
    /\ written = <<>>
    /\ exit_code = -1
    /\ ConfigIdle
    /\ PrepareIdle

\* The threshold taken with "if args.threshold" in place of "is not None":
\* a given 0.0 counts as not given
ChosenThresholdTruthy(args) ==
    IF args.threshold # NoThreshold /\ args.threshold # 0
    THEN args.threshold
    ELSE IF args.mode = "strict" THEN THRESHOLD_STRICT ELSE THRESHOLD_LOOSE

\* run, "Determine threshold"
ChosenThreshold(args) ==
    IF args.threshold # NoThreshold
    THEN args.threshold
    ELSE IF args.mode = "strict" THEN THRESHOLD_STRICT ELSE THRESHOLD_LOOSE

\* run: the extractor configuration is built from the arguments: an
\* NgramConfig with the chosen threshold for the n-gram engine, a
\* BaseExtractorConfig (threshold at its default) for any other
BuildConfig ==
    /\ cmd_pc = "configure"
    /\ config' = [config EXCEPT !.score_threshold =
                     IF engine = "ngram" THEN ChosenThreshold(gen_args)
                     ELSE THRESHOLD_STRICT]
    /\ cmd_pc' = "load"
    /\ UNCHANGED <<engine, extractor, error, stub_count, extracted, cmd_rules,
                   existing_rules, existing_payloads, written, exit_code,
                   gen_args>>
    /\ UNCHANGED <<adversarial, benign>>
    /\ UNCHANGED extractVars
    /\ UNCHANGED configVars
    /\ UNCHANGED prepareVars

\* run: the adapters are built and the two streams opened; a failure
\* there is caught by "except Exception" and ends in sys.exit(1)
LoadStreams ==
    /\ cmd_pc = "load"
    /\ \/ /\ cmd_pc' = "factory"
          /\ UNCHANGED <<error, exit_code>>
       \/ /\ cmd_pc' = "exit"
          /\ error' = [type |-> "DataError", name |-> "adapter"]
          /\ exit_code' = 1
    /\ UNCHANGED <<engine, extractor, stub_count, extracted, cmd_rules,
                   existing_rules, existing_payloads, written>>
    /\ UNCHANGED <<config, adversarial, benign>>
    /\ UNCHANGED gen_args
    /\ UNCHANGED extractVars
    /\ UNCHANGED configVars
    /\ UNCHANGED prepareVars

\* run: extractor = get_extractor(args.engine, extractor_config)
GetExtractor ==
    /\ cmd_pc = "factory"
    /\ LET made == get_extractor(engine, config)
       IN IF made.raised
          THEN /\ error' = made.error
               /\ exit_code' = 1
               /\ cmd_pc' = "exit"
               /\ UNCHANGED extractor
          ELSE /\ extractor' = made.extractor
               /\ cmd_pc' = "extract"
               /\ UNCHANGED <<error, exit_code>>
    /\ UNCHANGED <<engine, stub_count, extracted, cmd_rules, existing_rules,
                   existing_payloads, written>>
    /\ UNCHANGED <<config, adversarial, benign>>
    /\ UNCHANGED gen_args
    /\ UNCHANGED extractVars
    /\ UNCHANGED configVars
    /\ UNCHANGED prepareVars

\* StubExtractor.extract: count = sum(1 for _ in adversarial), one sample
StubConsume ==
    /\ cmd_pc = "extract"
    /\ extractor.class = "StubExtractor"
    /\ stub_count < Len(adversarial)
    /\ stub_count' = stub_count + 1
    /\ UNCHANGED <<cmd_pc, engine, extractor, error, extracted, cmd_rules,
                   existing_rules, existing_payloads, written, exit_code>>
    /\ UNCHANGED <<config, adversarial, benign>>
    /\ UNCHANGED gen_args
    /\ UNCHANGED extractVars
    /\ UNCHANGED configVars
    /\ UNCHANGED prepareVars

\* StubExtractor.extract: the stream is used up, the fixed rule is returned
StubReturn ==
    /\ cmd_pc = "extract"
    /\ extractor.class = "StubExtractor"
    /\ stub_count = Len(adversarial)
    /\ extracted' = StubRules(stub_count)
    /\ cmd_rules' = StubRules(stub_count)
    /\ cmd_pc' = "dedup"
    /\ UNCHANGED <<engine, extractor, error, stub_count, existing_rules,
                   existing_payloads, written, exit_code>>
    /\ UNCHANGED <<config, adversarial, benign>>
    /\ UNCHANGED gen_args
    /\ UNCHANGED extractVars
    /\ UNCHANGED configVars
    /\ UNCHANGED prepareVars

\* run: rules = extractor.extract(...) of an n-gram extractor, taken as
\* any list of rules (the command does not look into how they were found)
NgramExtract ==
    /\ cmd_pc = "extract"
    /\ extractor.class = "NgramExtractor"
    /\ \E rs \in SeqsUpTo(MockRulePool, MaxMockRules) :
          /\ extracted' = rs
          /\ cmd_rules' = rs
    /\ cmd_pc' = "dedup"
    /\ UNCHANGED <<engine, extractor, error, stub_count, existing_rules,
                   existing_payloads, written, exit_code>>
    /\ UNCHANGED <<config, adversarial, benign>>
    /\ UNCHANGED gen_args
    /\ UNCHANGED extractVars
    /\ UNCHANGED configVars
    /\ UNCHANGED prepareVars

\* run: extractor.extract(...) raises (the streams are read inside it);
\* "except Exception": logged, sys.exit(1)
ExtractRaises ==
    /\ cmd_pc = "extract"
    /\ error' = [type |-> "Exception", name |-> "extract"]
    /\ exit_code' = 1
    /\ cmd_pc' = "exit"
    /\ UNCHANGED <<engine, extractor, stub_count, extracted, cmd_rules,
                   existing_rules, existing_payloads, written>>
    /\ UNCHANGED <<config, adversarial, benign>>
    /\ UNCHANGED gen_args
    /\ UNCHANGED extractVars
    /\ UNCHANGED configVars
    /\ UNCHANGED prepareVars

\* The comprehension of the deduplication step
KeepNew(rs, payloads) ==
    LET IsNew(r) == ~IsDuplicate(r, payloads) IN SelectSeq(rs, IsNew)

\* run, "Deduplication": only with a file that is given and exists
Deduplicate ==
    /\ cmd_pc = "dedup"
    /\ IF existing_rules = "present"
       THEN cmd_rules' = KeepNew(cmd_rules, existing_payloads)
       ELSE UNCHANGED cmd_rules
    /\ cmd_pc' = "write"
    /\ UNCHANGED <<engine, extractor, error, stub_count, extracted,
                   existing_rules, existing_payloads, written, exit_code>>
    /\ UNCHANGED <<config, adversarial, benign>>
    /\ UNCHANGED gen_args
    /\ UNCHANGED extractVars
    /\ UNCHANGED configVars
    /\ UNCHANGED prepareVars

\* run, "Deduplication": parse_existing_rules raises on the existing file;
\* "except Exception": logged, sys.exit(1)
DeduplicateRaises ==
    /\ cmd_pc = "dedup"
    /\ existing_rules = "present"
    /\ error' = [type |-> "Exception", name |-> "parse_existing_rules"]
    /\ exit_code' = 1
    /\ cmd_pc' = "exit"
    /\ UNCHANGED <<engine, extractor, stub_count, extracted, cmd_rules,
                   existing_rules, existing_payloads, written>>
    /\ UNCHANGED <<config, adversarial, benign>>
    /\ UNCHANGED gen_args
    /\ UNCHANGED extractVars
    /\ UNCHANGED configVars
    /\ UNCHANGED prepareVars

\* The output step with the writer called only for a non-empty rule list
WriteRulesIfAny ==
    /\ cmd_pc = "write"
    /\ written' = IF Len(cmd_rules) > 0 THEN Append(written, cmd_rules)
                  ELSE written
    /\ exit_code' = 0
    /\ cmd_pc' = "exit"
    /\ UNCHANGED <<engine, extractor, error, stub_count, extracted,
                   cmd_rules, existing_rules, existing_payloads>>
    /\ UNCHANGED <<config, adversarial, benign>>
    /\ UNCHANGED gen_args
    /\ UNCHANGED extractVars
    /\ UNCHANGED configVars
    /\ UNCHANGED prepareVars

\* run, "Output Generation": writer.write(rules, args.output) is called and
\* raises; "except Exception": logged, sys.exit(1)
WriteRaises ==
    /\ cmd_pc = "write"
    /\ written' = Append(written, cmd_rules)
    /\ error' = [type |-> "OSError", name |-> "writer"]
    /\ exit_code' = 1
    /\ cmd_pc' = "exit"
    /\ UNCHANGED <<engine, extractor, stub_count, extracted, cmd_rules,
                   existing_rules, existing_payloads>>
    /\ UNCHANGED <<config, adversarial, benign>>
    /\ UNCHANGED gen_args
    /\ UNCHANGED extractVars
    /\ UNCHANGED configVars
    /\ UNCHANGED prepareVars

\* run, "Output Generation": writer.write(rules, args.output) and return
WriteRules ==
    /\ cmd_pc = "write"
    /\ written' = Append(written, cmd_rules)
    /\ exit_code' = 0
    /\ cmd_pc' = "exit"
    /\ UNCHANGED <<engine, extractor, error, stub_count, extracted,
                   cmd_rules, existing_rules, existing_payloads>>
    /\ UNCHANGED <<config, adversarial, benign>>
    /\ UNCHANGED gen_args
    /\ UNCHANGED extractVars
    /\ UNCHANGED configVars
    /\ UNCHANGED prepareVars

NextGenerate ==
    \/ BuildConfig
    \/ LoadStreams
    \/ GetExtractor
    \/ StubConsume
    \/ StubReturn
    \/ NgramExtract
    \/ ExtractRaises
    \/ Deduplicate
    \/ DeduplicateRaises
    \/ WriteRules
    \/ WriteRaises

\* The generate command from parsed arguments to its exit
SpecGenerate == InitGenerate /\ [][NextGenerate]_vars

-----------------------------------------------------------------------------
(* The configuration-driven generate command (cli/commands/generate.py run) *)

MaxSet == 2

\* config.yaml files: each followed key present or not
FileConfigs ==
    {[k \in ConfigKeys |->
        CASE k = "output_path" -> o
          [] k = "adversarial_adapter.type" -> "jsonl"
          [] k = "benign_adapter.type" -> "jsonl"
          [] k = "engine.type" -> t
          [] k = "engine.rule_date" -> d
          [] k = "engine.max_rules_per_run" -> "10"] :
       o \in {Absent, "from_config.yar"},
       t \in {Absent, "stub"},
       d \in {Absent, "2020-01-01"}}

\* --set key=value arguments
SetPool ==
    { [key |-> "engine.max_rules_per_run", value |-> "25"],
      [key |-> "engine.rule_date", value |-> "2021-01-01"],
      [key |-> "engine.type", value |-> "ngram"],
      [key |-> "output_path", value |-> "from_set.yar"] }

\* The explicit flags: each absent (None) or given; --rule-date takes any
\* string, the empty one included, --engine only its choices
CliArgs ==
    [ output : {NoneValue, "from_cli.yar"},
      adversarial_adapter : {NoneValue, "huggingface"},
      benign_adapter : {NoneValue, "huggingface"},
      engine : {NoneValue, "ngram", "stub"},
      rule_date : {NoneValue, "", "2023-01-01"} ]

\* bool(x) of an optional string
Truthy(x) == x # NoneValue /\ x # ""

\* x or default, for a key that may be missing
OrDefault(x, default) == IF x # Absent /\ Truthy(x) THEN x ELSE default

RECURSIVE apply_overrides(_, _)
\* apply_overrides(raw_config, overrides): each key=value in turn replaces
\* the value at its dotted key; every other key is left as it was
apply_overrides(raw, overrides) ==
    IF Len(overrides) = 0 THEN raw
    ELSE apply_overrides([raw EXCEPT ![Head(overrides).key] = Head(overrides).value],
                         Tail(overrides))

\* run, "Apply Explicit CLI Argument Overrides", on a dictionary
ExplicitOverrides(raw, args) ==
    [k \in ConfigKeys |->
        CASE k = "output_path" ->
               IF args.output # NoneValue THEN args.output ELSE raw[k]
          [] k = "adversarial_adapter.type" ->
               IF Truthy(args.adversarial_adapter)
               THEN args.adversarial_adapter ELSE raw[k]
          [] k = "benign_adapter.type" ->
               IF Truthy(args.benign_adapter)
               THEN args.benign_adapter ELSE raw[k]
          [] k = "engine.type" ->
               IF Truthy(args.engine) THEN args.engine ELSE raw[k]
          [] k = "engine.rule_date" ->
               IF Truthy(args.rule_date) THEN args.rule_date ELSE raw[k]
          [] OTHER -> raw[k]]

InitConfig ==
    /\ pc = "configure"
    /\ config \in {c \in ConfigSpace :
                       /\ c.max_rules_per_run = MAX_RULES
                       /\ c.min_ngram_length = 1
                       /\ c.max_ngram_length = 2
                       /\ c.benign_penalty_weight = Scale
                       /\ c.min_document_frequency = MIN_DOCUMENT_FREQ
                       /\ c.score_threshold = THRESHOLD_STRICT}
    /\ adversarial = <<>>
    /\ benign = <<>>
    /\ NoLocals
    /\ CommandIdle
    /\ cfg_pc = "load"
    /\ file_config \in FileConfigs
    /\ set_args \in SeqsUpTo(SetPool, MaxSet)
    /\ cli_args \in CliArgs
    /\ raw_config = [k \in ConfigKeys |-> Absent]
    /\ app_config = [k \in ConfigKeys |-> Absent]
    /\ engine_type = NoneValue
    /\ PrepareIdle

\* run: raw_config = load_config(config_path)
LoadConfig ==
    /\ cfg_pc = "load"
    /\ raw_config' = file_config
    /\ cfg_pc' = "overrides"
    /\ UNCHANGED <<file_config, set_args, cli_args, app_config, engine_type>>
    /\ UNCHANGED <<config, adversarial, benign>>
    /\ UNCHANGED extractVars
    /\ UNCHANGED commandVars
    /\ UNCHANGED prepareVars

\* run: raw_config = apply_overrides(raw_config, getattr(args, "set", None))
ApplyOverrides ==
    /\ cfg_pc = "overrides"
    /\ raw_config' = apply_overrides(raw_config, set_args)
    /\ cfg_pc' = "cli"
    /\ UNCHANGED <<file_config, set_args, cli_args, app_config, engine_type>>
    /\ UNCHANGED <<config, adversarial, benign>>
    /\ UNCHANGED extractVars
    /\ UNCHANGED commandVars
    /\ UNCHANGED prepareVars

\* run, "Apply Explicit CLI Argument Overrides"
ApplyCliOverrides ==
    /\ cfg_pc = "cli"
    /\ raw_config' = ExplicitOverrides(raw_config, cli_args)
    /\ cfg_pc' = "validate"
    /\ UNCHANGED <<file_config, set_args, cli_args, app_config, engine_type>>
    /\ UNCHANGED <<config, adversarial, benign>>
    /\ UNCHANGED extractVars
    /\ UNCHANGED commandVars
    /\ UNCHANGED prepareVars

\* run: app_config = AppConfig(**raw_config) and the engine type taken
\* from the dictionary, "ngram" when it holds none
ValidateConfig ==
    /\ cfg_pc = "validate"
    /\ app_config' = raw_config
    /\ engine_type' = OrDefault(raw_config["engine.type"], "ngram")
    /\ cfg_pc' = "resolved"
    /\ UNCHANGED <<file_config, set_args, cli_args, raw_config>>
    /\ UNCHANGED <<config, adversarial, benign>>
    /\ UNCHANGED extractVars
    /\ UNCHANGED commandVars
    /\ UNCHANGED prepareVars

NextConfig ==
    \/ LoadConfig
    \/ ApplyOverrides
    \/ ApplyCliOverrides
    \/ ValidateConfig

\* The configuration-driven generate command up to its resolved
\* configuration
SpecConfig == InitConfig /\ [][NextConfig]_vars

-----------------------------------------------------------------------------
(* The prepare command's write loop (commands/prepare.py run) *)

MaxStream == 3

\* sample.to_dict(): the fields of the sample, by name
to_dict(sample) == [text |-> sample.text, source |-> sample.source]

\* line = json.dumps(sample.to_dict(), ensure_ascii=False); line + "\n"
JsonLine(sample) == [json |-> to_dict(sample), newline |-> TRUE]

\* The limit test with the break one sample late
LimitReachedAfter(args, count) ==
    args.limit # NoLimit /\ args.limit # 0 /\ count > args.limit

\* args.limit and count >= args.limit
LimitReached(args, count) ==
    args.limit # NoLimit /\ args.limit # 0 /\ count >= args.limit

InitPrepare ==
    /\ pc = "configure"
    /\ config \in {c \in ConfigSpace :
                       /\ c.max_rules_per_run = MAX_RULES
                       /\ c.min_ngram_length = 1
                       /\ c.max_ngram_length = 2
                       /\ c.benign_penalty_weight = Scale
                       /\ c.min_document_frequency = MIN_DOCUMENT_FREQ
                       /\ c.score_threshold = THRESHOLD_STRICT}
    /\ adversarial = <<>>
    /\ benign = <<>>
    /\ NoLocals
    /\ CommandIdle
    /\ ConfigIdle
    /\ prep_pc = "open"
    /\ stream \in SeqsUpTo(SamplePool, MaxStream)
    /\ prep_args \in [limit : {NoLimit} \cup 0..(MaxStream + 1)]
    /\ pulled = 0
    /\ prep_count = 0
    /\ out_file \in {<<>>} \cup {<<JsonLine(s)>> : s \in SamplePool}
    /\ prep_exit = -1

\* count = 0; mkdir; args.output.open("w"): the file is emptied
PrepareOpen ==
    /\ prep_pc = "open"
    /\ prep_count' = 0
    /\ out_file' = <<>>
    /\ prep_pc' = "loop"
    /\ UNCHANGED <<stream, prep_args, pulled, prep_exit>>
    /\ UNCHANGED <<config, adversarial, benign>>
    /\ UNCHANGED extractVars
    /\ UNCHANGED commandVars
    /\ UNCHANGED configVars

\* mkdir or open raises: logged, sys.exit(1)
PrepareOpenFails ==
    /\ prep_pc = "open"
    /\ prep_exit' = 1
    /\ prep_pc' = "exited"
    /\ UNCHANGED <<stream, prep_args, pulled, prep_count, out_file>>
    /\ UNCHANGED <<config, adversarial, benign>>
    /\ UNCHANGED extractVars
    /\ UNCHANGED commandVars
    /\ UNCHANGED configVars

\* One pass of "for sample in stream": the next sample is taken, written
\* and counted; the loop is left if the limit is reached
PrepareWrite ==
    /\ prep_pc = "loop"
    /\ pulled < Len(stream)
    /\ pulled' = pulled + 1
    /\ out_file' = Append(out_file, JsonLine(stream[pulled + 1]))
    /\ prep_count' = prep_count + 1
    /\ prep_pc' = IF LimitReached(prep_args, prep_count + 1)
                  THEN "written" ELSE "loop"
    /\ UNCHANGED <<stream, prep_args, prep_exit>>
    /\ UNCHANGED <<config, adversarial, benign>>
    /\ UNCHANGED extractVars
    /\ UNCHANGED commandVars
    /\ UNCHANGED configVars

\* f.write raises on the sample just taken: logged, sys.exit(1)
PrepareWriteFails ==
    /\ prep_pc = "loop"
    /\ pulled < Len(stream)
    /\ pulled' = pulled + 1
    /\ prep_exit' = 1
    /\ prep_pc' = "exited"
    /\ UNCHANGED <<stream, prep_args, prep_count, out_file>>
    /\ UNCHANGED <<config, adversarial, benign>>
    /\ UNCHANGED extractVars
    /\ UNCHANGED commandVars
    /\ UNCHANGED configVars

\* The stream is exhausted: the for loop ends
PrepareExhausted ==
    /\ prep_pc = "loop"
    /\ pulled = Len(stream)
    /\ prep_pc' = "written"
    /\ UNCHANGED <<stream, prep_args, pulled, prep_count, out_file, prep_exit>>
    /\ UNCHANGED <<config, adversarial, benign>>
    /\ UNCHANGED extractVars
    /\ UNCHANGED commandVars
    /\ UNCHANGED configVars

\* The file is closed, the count is logged and run returns
PrepareReturn ==
    /\ prep_pc = "written"
    /\ prep_exit' = 0
    /\ prep_pc' = "exited"
    /\ UNCHANGED <<stream, prep_args, pulled, prep_count, out_file>>
    /\ UNCHANGED <<config, adversarial, benign>>
    /\ UNCHANGED extractVars
    /\ UNCHANGED commandVars
    /\ UNCHANGED configVars

NextPrepare ==
    \/ PrepareOpen
    \/ PrepareOpenFails
    \/ PrepareWrite
    \/ PrepareWriteFails
    \/ PrepareExhausted
    \/ PrepareReturn

SpecPrepare == InitPrepare /\ [][NextPrepare]_vars

-----------------------------------------------------------------------------
(* Properties *)

\* A document holds a phrase when some contiguous run of its tokens, joined
\* by single spaces, is the phrase.
ContainsPhrase(tokens, phrase) ==
    \E i \in 1..Len(tokens) : \E j \in i..Len(tokens) :
        Join(SubSeq(tokens, i, j)) = phrase

AdvDocsContaining(phrase) ==
    Cardinality({d \in 1..Len(adversarial) : ContainsPhrase(AdvTokens(d), phrase)})

BenignDocsContaining(phrase) ==
    Cardinality({d \in 1..Len(benign) : ContainsPhrase(BenignTokens(d), phrase)})

MaxOf(a, b) == IF a >= b THEN a ELSE b

CoveredCount == Cardinality({d \in 1..Len(covered_mask) : covered_mask[d]})

\* The configuration contract: every field inside its stated domain
ConfigInDomain(c) ==
    /\ c.min_ngram_length >= 1
    /\ c.max_ngram_length >= c.min_ngram_length
    /\ c.min_document_frequency > 0
    /\ c.min_document_frequency <= Scale
    /\ c.benign_penalty_weight >= 0
    /\ c.max_rules_per_run >= 1

\* C1: the list selected by the greedy set cover, and so the rule list
\* extract returns, never has more than config.max_rules_per_run elements.
\* (The code caps the loop at MAX_RULES and never reads max_rules_per_run.)
C1_SelectionBound ==
    /\ Len(selected) <= config.max_rules_per_run
    /\ Len(rules) <= config.max_rules_per_run

\* C2: with an empty adversarial sequence extract ends by signalling an
\* empty-input error, not by returning a rule list.
C2_EmptyInputRaises ==
    (Len(adversarial) = 0 /\ pc = "done") => result = "raised"

\* C3: a configuration with a field outside its domain is rejected before
\* any sample is read: no step after the configuration step runs with it.
C3_BadConfigRejected ==
    ~ConfigInDomain(config) => pc = "configure"

\* C4: for every vocabulary phrase, score = adversarial_doc_freq -
\* benign_penalty_weight * benign_doc_freq, the frequencies being the number
\* of documents holding the phrase at least once over n_adv and over
\* max(n_benign, 1).  Stated with the denominators multiplied out.
C4_ScoreFormula ==
    /\ pc \notin {"configure", "materialize", "vectorize", "score"}
          => Len(scores) = Len(feature_names)
    /\ \A i \in 1..Len(scores) :
          LET n_adv == Len(adversarial)
              n_ben == MaxOf(Len(benign), 1)
          IN /\ freq_adv[i] * n_adv = Scale * AdvDocsContaining(feature_names[i])
             /\ freq_benign[i] * n_ben
                    = Scale * BenignDocsContaining(feature_names[i])
             /\ scores[i] * Scale
                    = freq_adv[i] * Scale
                        - config.benign_penalty_weight * freq_benign[i]

\* Scoring has run on a corpus where a phrase repeats inside one adversarial
\* document and a penalised phrase occurs in a benign document.
C4_Witness ==
    /\ pc = "threshold"
    /\ config.benign_penalty_weight > 0
    /\ \E i \in 1..Len(scores) : freq_benign[i] > 0 /\ scores[i] < freq_adv[i]
    /\ \E i \in 1..Len(scores) : \E d \in 1..Len(adversarial) :
          TermCount(AdvTokens(d), feature_names[i],
                    config.min_ngram_length, config.max_ngram_length) > 1

\* C5: with a non-empty adversarial set and an empty benign set extraction
\* does not fail, benign_doc_freq is 0 for every phrase and every score
\* equals the adversarial_doc_freq, whatever the penalty weight.
C5_NoBenignReduction ==
    (Len(adversarial) > 0 /\ Len(benign) = 0) =>
        /\ result # "raised"
        /\ pc \notin {"configure", "materialize", "vectorize", "score"}
              => Len(scores) = Len(feature_names)
        /\ \A i \in 1..Len(scores) :
              /\ freq_benign[i] = 0
              /\ scores[i] = freq_adv[i]

\* Scoring has run with no benign sample and a positive penalty weight.
C5_Witness ==
    /\ Len(adversarial) > 0
    /\ Len(benign) = 0
    /\ pc = "threshold"
    /\ config.benign_penalty_weight > 0
    /\ Len(scores) > 1

\* The states in which candidates is what the threshold filter produced
AfterThreshold ==
    \/ pc \in {"subsume_sort", "subsume"}
    \/ pc = "done" /\ Len(scores) > 0 /\ Len(candidates) = 0

\* C6: a vocabulary phrase is passed to the subsumption stage if and only if
\* its score is at least score_threshold, and the passing candidates keep
\* vocabulary order.
C6_ThresholdFilter ==
    AfterThreshold =>
        /\ \A k \in 1..Len(candidates) :
              /\ candidates[k].original_index \in 1..Len(scores)
              /\ candidates[k].score >= config.score_threshold
              /\ candidates[k].score = scores[candidates[k].original_index]
              /\ candidates[k].text = feature_names[candidates[k].original_index]
        /\ \A i \in 1..Len(scores) :
              scores[i] >= config.score_threshold
                  => \E k \in 1..Len(candidates) : candidates[k].original_index = i
        /\ \A k \in 1..Len(candidates) : \A l \in 1..Len(candidates) :
              k < l => candidates[k].original_index < candidates[l].original_index

\* The filter has dropped one phrase and passed two, one of them with a
\* score exactly at the threshold.
C6_Witness ==
    /\ pc = "subsume_sort"
    /\ Len(candidates) >= 2
    /\ \E i \in 1..Len(scores) : scores[i] < config.score_threshold
    /\ \E k \in 1..Len(candidates) :
          candidates[k].score = config.score_threshold

\* C7: every phrase that reaches scoring has adversarial_doc_freq of at
\* least config.min_document_frequency.  (The code passes min_df=0.01 to the
\* vectorizer and never reads min_document_frequency.)
C7_FrequencyFloor ==
    pc \in {"score", "threshold"} =>
        \A i \in 1..Len(feature_names) :
            AdvDocsContaining(feature_names[i]) * Scale
                >= config.min_document_frequency * Len(adversarial)

\* C8: for two candidates A and B that both survive _filter_subsumed, B's
\* text a substring of the longer A's text, A.score < 0.95 * B.score.
C8_SubsumptionInvariant ==
    LET survivors == IF pc \in {"subsume_sort", "subsume"} THEN kept
                     ELSE IF pc \in {"cover_init", "cover", "build"}
                     THEN candidates ELSE <<>>
    IN \A a \in 1..Len(survivors) : \A b \in 1..Len(survivors) :
          (/\ Len(survivors[a].text) > Len(survivors[b].text)
           /\ IsSubstring(survivors[b].text, survivors[a].text))
              => survivors[a].score * Scale
                     < survivors[b].score * SubsumeFactor

\* Subsumption has returned two survivors, one inside the other.
C8_Witness ==
    /\ pc = "cover_init"
    /\ \E a \in 1..Len(candidates) : \E b \in 1..Len(candidates) :
          /\ Len(candidates[a].text) > Len(candidates[b].text)
          /\ IsSubstring(candidates[b].text, candidates[a].text)

\* C9: across rounds of the greedy selector the number of covered samples
\* never decreases, and it strictly increases in every round that selects a
\* candidate: nothing is selected with zero newly covered samples.
C9_CoverageMonotone ==
    [][/\ CoveredCount' >= CoveredCount
       /\ Len(selected') > Len(selected) => CoveredCount' > CoveredCount]_vars

\* The selector has stopped after at least one selecting round with a
\* candidate left unselected and a sample left uncovered: the candidate
\* added no coverage and was not taken.
C9_Witness ==
    /\ pc = "build"
    /\ Len(selected) >= 1
    /\ Len(selected) < Len(candidates)
    /\ CoveredCount < Len(adversarial)

C11_NoDuplicatePhrases ==
    /\ \A k, l \in 1..Len(candidates) :
          k # l => candidates[k].text # candidates[l].text
    /\ \A k, l \in 1..Len(selected) :
          k # l => selected[k].idx # selected[l].idx
    /\ \A k, l \in 1..Len(rules) :
          k # l => rules[k].text # rules[l].text

\* extract returned two rules
C11_Witness ==
    /\ pc = "done"
    /\ result = "returned"
    /\ Len(rules) >= 2
    /\ Len(candidates) >= 2

\* The phrase is n consecutive tokens of some adversarial document, joined
\* by single spaces, with min_ngram_length <= n <= max_ngram_length.
IsAdversarialWindow(phrase) ==
    \E d \in 1..Len(adversarial) :
        LET tokens == AdvTokens(d)
        IN \E n \in config.min_ngram_length..config.max_ngram_length :
              \E i \in 1..(Len(tokens) - n + 1) :
                 Join(SubSeq(tokens, i, i + n - 1)) = phrase

\* C12: every candidate phrase, at every stage it survives to, is a
\* contiguous token window of some adversarial document whose token count n
\* has min_ngram_length <= n <= max_ngram_length.  The vocabulary is
\* looked at where the vectorizer hands it over (it is written nowhere
\* else), every later list in every state.
C12_WindowOfAdversarial ==
    /\ pc = "score" =>
          \A i \in 1..Len(feature_names) : IsAdversarialWindow(feature_names[i])
    /\ \A k \in 1..Len(candidates) : IsAdversarialWindow(candidates[k].text)
    /\ \A k \in 1..Len(visit) : IsAdversarialWindow(visit[k].text)
    /\ \A k \in 1..Len(kept) : IsAdversarialWindow(kept[k].text)
    /\ \A k \in 1..Len(selected) : IsAdversarialWindow(selected[k].text)
    /\ \A k \in 1..Len(rules) : IsAdversarialWindow(rules[k].text)

\* A two-token phrase and a one-token phrase both reached the rule list
C12_Witness ==
    /\ pc = "done"
    /\ config.min_ngram_length = 1
    /\ config.max_ngram_length = 2
    /\ \E k \in 1..Len(rules) : \E c \in 1..Len(rules[k].text) :
          rules[k].text[c] = " "
    /\ \E k \in 1..Len(rules) : \A c \in 1..Len(rules[k].text) :
          rules[k].text[c] # " "

IsScenarioA ==
    /\ config = ScenarioA_Config
    /\ adversarial = ScenarioA_Adversarial
    /\ benign = ScenarioA_Benign

AfterSubsumption == pc \in {"cover_init", "cover", "build", "done"}

\* The column of a phrase in the document-term matrix
FeatureIndex(phrase) ==
    CHOOSE i \in 1..Len(feature_names) : feature_names[i] = phrase

IsCandidate(phrase) ==
    \E k \in 1..Len(candidates) : candidates[k].text = phrase

\* The phrase has the scenario's figures: adversarial_doc_freq = 1.0,
\* benign_doc_freq = 0.0, score = 1.0
ScoresOneAgainstZero(phrase) ==
    /\ \E i \in 1..Len(feature_names) : feature_names[i] = phrase
    /\ freq_adv[FeatureIndex(phrase)] = Scale
    /\ freq_benign[FeatureIndex(phrase)] = 0
    /\ scores[FeatureIndex(phrase)] = Scale

Phrase_IgnorePrevious == Join(<<W_ignore, W_previous>>)
Phrase_IgnorePreviousInstructions ==
    Join(<<W_ignore, W_previous, W_instructions>>)
Phrase_IgnorePreviousInstructionsNow ==
    Join(<<W_ignore, W_previous, W_instructions, W_now>>)

\* C13 as stated: in scenario A "ignore previous instructions" survives
\* subsumption with adversarial_doc_freq = 1.0, benign_doc_freq = 0.0 and
\* score = 1.0, and "ignore previous" is dropped by subsumption.
C13_ScenarioAAsStated ==
    (IsScenarioA /\ AfterSubsumption) =>
        /\ ScoresOneAgainstZero(Phrase_IgnorePreviousInstructions)
        /\ IsCandidate(Phrase_IgnorePreviousInstructions)
        /\ ScoresOneAgainstZero(Phrase_IgnorePrevious)
        /\ ~IsCandidate(Phrase_IgnorePrevious)

\* C13 amended: in scenario A "ignore previous instructions" has
\* adversarial_doc_freq = 1.0, benign_doc_freq = 0.0 and score = 1.0 and
\* passes the threshold, but it is dropped by subsumption, as is "ignore
\* previous": both are substrings of "ignore previous instructions now",
\* which occurs in both adversarial documents, scores 1.0 and survives.
C13_ScenarioA ==
    (IsScenarioA /\ AfterSubsumption) =>
        /\ ScoresOneAgainstZero(Phrase_IgnorePreviousInstructions)
        /\ ~IsCandidate(Phrase_IgnorePreviousInstructions)
        /\ ScoresOneAgainstZero(Phrase_IgnorePrevious)
        /\ ~IsCandidate(Phrase_IgnorePrevious)
        /\ ScoresOneAgainstZero(Phrase_IgnorePreviousInstructionsNow)
        /\ IsCandidate(Phrase_IgnorePreviousInstructionsNow)

\* Scenario A ran to its end and its rule is "ignore previous instructions
\* now"
C13_Witness ==
    /\ IsScenarioA
    /\ pc = "done"
    /\ result = "returned"
    /\ \E k \in 1..Len(rules) :
          rules[k].text = Phrase_IgnorePreviousInstructionsNow

\* Scenario C: at least one benign document, every n-gram of every
\* adversarial document also occurs in every benign document, the penalty
\* weight is 1.0 and the threshold is positive.
IsScenarioC ==
    /\ Len(adversarial) > 0
    /\ Len(benign) > 0
    /\ config.benign_penalty_weight = Scale
    /\ config.score_threshold > 0
    /\ \A d \in 1..Len(adversarial) :
          \A n \in config.min_ngram_length..config.max_ngram_length :
             \A i \in 1..(Len(AdvTokens(d)) - n + 1) :
                \A b \in 1..Len(benign) :
                   ContainsPhrase(BenignTokens(b),
                                  Join(SubSeq(AdvTokens(d), i, i + n - 1)))

\* C14: in scenario C every computed score is <= 0, the returned rule list
\* is empty and no exception is raised.
C14_ScenarioC ==
    IsScenarioC =>
        /\ \A i \in 1..Len(scores) : scores[i] <= 0
        /\ result # "raised"
        /\ candidates = <<>>
        /\ pc = "done" => (result = "returned" /\ rules = <<>>)

\* Scenario C ran to its end with phrases scored
C14_Witness ==
    /\ IsScenarioC
    /\ pc = "done"
    /\ Len(scores) > 0
    /\ \E i \in 1..Len(scores) : freq_adv[i] = Scale /\ scores[i] = 0

\* Nothing of subsumption, selection or rule building has run
LaterStagesUntouched ==
    /\ visit = <<>>
    /\ kept = <<>>
    /\ covered_mask = <<>>
    /\ selected = <<>>
    /\ round = 0

NoScorePasses ==
    \A i \in 1..Len(scores) : scores[i] < config.score_threshold

C15_WitnessNoVocabulary ==
    /\ pc = "done"
    /\ Len(adversarial) > 0
    /\ config.min_ngram_length <= config.max_ngram_length
    /\ Len(feature_names) = 0
    /\ rules = <<>>

\* Every phrase made of min_ngram_length to max_ngram_length consecutive
\* tokens of an adversarial document: a function of the adversarial corpus
\* and the configuration, and of nothing else.
AdversarialPhrases ==
    UNION {
      UNION {
        {Join(SubSeq(AdvTokens(d), i, i + n - 1)) :
            i \in 1..(Len(AdvTokens(d)) - n + 1)} :
        n \in config.min_ngram_length..config.max_ngram_length } :
      d \in 1..Len(adversarial) }

\* C16: the vocabulary is determined by the adversarial corpus and the
\* configuration alone (whatever the benign corpus is, the features are
\* the adversarial phrases, each once), and every candidate phrase at every
\* later stage occurs in at least one adversarial document; the benign
\* corpus shows only in freq_benign and the scores.  The vocabulary is
\* looked at where the vectorizer hands it over.
C16_VocabularyFromAdversarial ==
    /\ pc = "score" =>
          /\ {feature_names[i] : i \in 1..Len(feature_names)}
                = AdversarialPhrases
          /\ Len(feature_names) = Cardinality(AdversarialPhrases)
          /\ \A i \in 1..Len(feature_names) :
                AdvDocsContaining(feature_names[i]) >= 1
    /\ \A k \in 1..Len(candidates) :
          AdvDocsContaining(candidates[k].text) >= 1
    /\ \A k \in 1..Len(rules) : AdvDocsContaining(rules[k].text) >= 1

\* The benign corpus holds a phrase that no adversarial document holds, and
\* the run went through scoring to its end
C16_Witness ==
    /\ pc = "done"
    /\ Len(feature_names) > 0
    /\ Len(scores) = Len(feature_names)
    /\ \E b \in 1..Len(benign) :
          \E n \in config.min_ngram_length..config.max_ngram_length :
             \E i \in 1..(Len(BenignTokens(b)) - n + 1) :
                AdvDocsContaining(Join(SubSeq(BenignTokens(b), i, i + n - 1))) = 0
    /\ \E i \in 1..Len(freq_benign) : freq_benign[i] > 0

\* None of the rule's string values is in the existing payload set
NoStringKnown(r) ==
    \A k \in 1..Len(r.strings) : r.strings[k] \notin existing_payloads

\* w is the sublist of rs made of the rules with no known string, in the
\* order of rs: an order-preserving map of positions picks exactly them
IsNewRulesInOrder(w, rs) ==
    \E f \in [1..Len(w) -> 1..Len(rs)] :
        /\ \A j \in 1..Len(w) : w[j] = rs[f[j]]
        /\ \A j, k \in 1..Len(w) : j < k => f[j] < f[k]
        /\ \A k \in 1..Len(rs) :
              NoStringKnown(rs[k]) <=> (\E j \in 1..Len(w) : f[j] = k)

\* C17: when the existing-rules file is given and exists, the rules the
\* generate command writes are exactly the extracted rules none of whose
\* string values is in the existing payload set, in their original order.
C17_Deduplication ==
    (cmd_pc = "exit" /\ exit_code = 0 /\ existing_rules = "present") =>
        /\ Len(written) = 1
        /\ IsNewRulesInOrder(written[1], extracted)

\* Two rules were extracted; the one with a known string among its strings
\* was dropped and the other written
C17_Witness ==
    /\ cmd_pc = "exit"
    /\ exit_code = 0
    /\ existing_rules = "present"
    /\ Len(extracted) = 2
    /\ Len(extracted[1].strings) = 2
    /\ ~NoStringKnown(extracted[1])
    /\ Len(written) = 1
    /\ written[1] = <<extracted[2]>>

\* get_extractor has been called (the run did not end while loading)
AfterFactory ==
    \/ cmd_pc \in {"extract", "dedup", "write"}
    \/ cmd_pc = "exit" /\ error.type # "DataError"

C18_WitnessBuilt ==
    /\ cmd_pc = "dedup"
    /\ engine = "ngram"
    /\ extractor.class = "NgramExtractor"
    /\ Len(extracted) > 0

\* The stub has returned
StubReturned ==
    /\ extractor.class = "StubExtractor"
    /\ cmd_pc \in {"dedup", "write", "exit"}
    /\ error.name # "extract"

\* C19: StubExtractor.extract consumes every element of the adversarial
\* iterable and then returns exactly one rule, named "stub_rule_001", with
\* score 1.0 and the tag "stub", whatever the inputs are (empty inputs
\* included).
C19_StubRule ==
    /\ (extractor.class = "StubExtractor" /\ cmd_pc = "extract") =>
          (extracted = <<>> /\ stub_count <= Len(adversarial))
    /\ StubReturned =>
          /\ stub_count = Len(adversarial)
          /\ Len(extracted) = 1
          /\ extracted[1].name = "stub_rule_001"
          /\ extracted[1].score = Scale
          /\ \E t \in 1..Len(extracted[1].tags) : extracted[1].tags[t] = "stub"

\* The stub went through two adversarial samples, with a benign sample
\* given, and returned its rule
C19_Witness ==
    /\ StubReturned
    /\ Len(adversarial) = 2
    /\ stub_count = 2
    /\ Len(benign) = 1
    /\ Len(extracted) = 1

\* The stub returned its rule on an empty adversarial stream
C19_WitnessEmpty ==
    /\ StubReturned
    /\ Len(adversarial) = 0
    /\ Len(benign) = 0
    /\ Len(extracted) = 1

\* The flag of the command line that stands for a key, NoneValue when the
\* key has no flag or the flag was not given
FlagFor(k) ==
    CASE k = "output_path" -> cli_args.output
      [] k = "adversarial_adapter.type" -> cli_args.adversarial_adapter
      [] k = "benign_adapter.type" -> cli_args.benign_adapter
      [] k = "engine.type" -> cli_args.engine
      [] k = "engine.rule_date" -> cli_args.rule_date
      [] OTHER -> NoneValue

\* The positions of the --set arguments that name the key
SetPositions(k) == {i \in 1..Len(set_args) : set_args[i].key = k}

LastOf(S) == CHOOSE i \in S : \A j \in S : j <= i

\* C20: the effective configuration follows explicit flag > --set override
\* > configuration file: a value given by a flag replaces the value of its
\* key, else a --set override (the last one for the key) does, else the
\* key keeps the value of the file.
C20_Precedence ==
    cfg_pc = "resolved" =>
        \A k \in ConfigKeys :
            app_config[k] =
                IF FlagFor(k) # NoneValue THEN FlagFor(k)
                ELSE IF SetPositions(k) # {}
                     THEN set_args[LastOf(SetPositions(k))].value
                     ELSE file_config[k]

\* The same precedence with "given" read as "given and not empty": an
\* empty flag value counts as no flag
PrecedenceOfNonEmptyFlags ==
    cfg_pc = "resolved" =>
        \A k \in ConfigKeys :
            app_config[k] =
                IF Truthy(FlagFor(k)) THEN FlagFor(k)
                ELSE IF SetPositions(k) # {}
                     THEN set_args[LastOf(SetPositions(k))].value
                     ELSE file_config[k]

\* C21: in the flag-driven generate command the score threshold given to
\* the n-gram engine is the --threshold value whenever that flag is given
\* (0.0 included), whatever --mode says; without the flag it is 0.1 in
\* strict mode and 0.01 in loose mode.
C21_Threshold ==
    extractor.class = "NgramExtractor" =>
        /\ gen_args.threshold # NoThreshold =>
              extractor.config.score_threshold = gen_args.threshold
        /\ (gen_args.threshold = NoThreshold /\ gen_args.mode = "strict") =>
              extractor.config.score_threshold * 10 = Scale
        /\ (gen_args.threshold = NoThreshold /\ gen_args.mode = "loose") =>
              extractor.config.score_threshold * 100 = Scale

\* The n-gram engine was built with --threshold 0.0 given in strict mode
C21_Witness ==
    /\ extractor.class = "NgramExtractor"
    /\ gen_args.threshold = 0
    /\ gen_args.mode = "strict"
    /\ extractor.config.score_threshold = 0

\* The n-gram engine was built in loose mode without --threshold
C21_WitnessLoose ==
    /\ extractor.class = "NgramExtractor"
    /\ gen_args.threshold = NoThreshold
    /\ gen_args.mode = "loose"

\* Some accepted candidate holds the text of c as a contiguous substring
\* and scores at least 0.95 times the score of c
AcceptedDominates(c) ==
    \E k \in 1..Len(kept) :
        /\ Len(kept[k].text) >= Len(c.text)
        /\ \E p \in 1..(Len(kept[k].text) - Len(c.text) + 1) :
              \A q \in 1..Len(c.text) : kept[k].text[p + q - 1] = c.text[q]
        /\ 100 * kept[k].score >= 95 * c.score

\* C22: in _filter_subsumed the candidate being visited is dropped if and
\* only if some already-accepted (longer) candidate contains its text as a
\* contiguous substring and has score >= 0.95 * its score; otherwise it is
\* accepted, at the end of the accepted list.  Only accepted candidates
\* are compared against: a dropped one never causes a drop.
C22_DropIff ==
    [][(pc = "subsume" /\ Len(visit) > 0) =>
          /\ visit' = Tail(visit)
          /\ AcceptedDominates(Head(visit)) => kept' = kept
          /\ ~AcceptedDominates(Head(visit)) => kept' = Append(kept, Head(visit))]_vars

\* The walk is over; one candidate was dropped, and another was accepted
\* although an accepted longer one contains it (its score is too high)
C22_Witness ==
    /\ pc = "subsume"
    /\ Len(visit) = 0
    /\ Len(kept) < Len(candidates)
    /\ \E j, k \in 1..Len(kept) :
          /\ j < k
          /\ IsSubstring(kept[k].text, kept[j].text)

\* The candidates the scan of one round may still pick
Unselected == {i \in 1..Len(candidates) : ~AlreadySelected(i, selected)}

\* In every round the pick has the largest count of newly covered samples
\* among the unselected candidates, and is the earliest such candidate of
\* the list the selector was given
GreedyPicksFirstLargestGain ==
    [][(pc = "cover" /\ Len(selected') > Len(selected)) =>
          LET c == selected'[Len(selected')]
          IN /\ c.idx \in Unselected
             /\ \A i \in Unselected :
                   /\ NewHits(candidates[i], covered_mask) <= NewHits(c, covered_mask)
                   /\ NewHits(candidates[i], covered_mask) = NewHits(c, covered_mask)
                         => c.idx <= i]_vars

\* C23: in every round of the greedy selector the chosen candidate has the
\* largest count of newly covered samples among the not-yet-selected
\* candidates; among candidates tied on that count the one with the higher
\* score is chosen, and remaining ties go to the earlier candidate in
\* vocabulary order.
C23_GreedyChoice ==
    [][(pc = "cover" /\ Len(selected') > Len(selected)) =>
          LET c == selected'[Len(selected')]
          IN \A i \in Unselected :
                /\ NewHits(candidates[i], covered_mask) <= NewHits(c, covered_mask)
                /\ NewHits(candidates[i], covered_mask) = NewHits(c, covered_mask)
                      => /\ candidates[i].score <= c.score
                         /\ candidates[i].score = c.score
                               => c.original_index <= candidates[i].original_index]_vars

\* No unselected candidate newly covers a sample
NoGainLeft ==
    \A i \in Unselected : NewHits(candidates[i], covered_mask) = 0

\* Every sample some input candidate covers is covered by a selected one
CoverableAreCovered ==
    \A d \in 1..Len(covered_mask) :
        (\E i \in 1..Len(candidates) : CandidateVector(candidates[i])[d])
            => \E k \in 1..Len(selected) : CandidateVector(selected[k])[d]

\* With the loop range of the code as the cap: the selector returns exactly
\* when MAX_RULES rounds are done or nothing is left to gain, and a return
\* below MAX_RULES leaves no coverable sample uncovered
GreedyStopsAtLoopRange ==
    [][pc = "cover" =>
          /\ pc' = "build" <=> (Len(selected) >= MAX_RULES \/ NoGainLeft)
          /\ (pc' = "build" /\ Len(selected) < MAX_RULES) => CoverableAreCovered]_vars

\* C24: the greedy selector stops exactly when the rule cap
\* (max_rules_per_run) has been reached or no unselected candidate newly
\* covers any sample; when it returns fewer candidates than the cap every
\* coverable sample is covered, and it never stops below the cap while a
\* candidate of positive gain remains.
C24_StopsExactly ==
    [][pc = "cover" =>
          /\ pc' = "build" <=>
                (Len(selected) >= config.max_rules_per_run \/ NoGainLeft)
          /\ (pc' = "build" /\ Len(selected) < config.max_rules_per_run)
                => CoverableAreCovered]_vars

\* Number of tokens of a phrase: its tokens are joined by single spaces
TokenLength(text) ==
    1 + Cardinality({p \in 1..Len(text) : text[p] = " "})

\* a comes before b by (token_length descending, score descending,
\* insertion order)
BeforeByTokensScoreKey(a, b) ==
    \/ TokenLength(a.text) > TokenLength(b.text)
    \/ /\ TokenLength(a.text) = TokenLength(b.text)
       /\ \/ a.score > b.score
          \/ a.score = b.score /\ a.original_index < b.original_index

\* What the sort of the code gives: the walk and the accepted list are in
\* descending order of the character length of the text, and candidates
\* of equal length keep the order they came in (vocabulary order)
FilterOrderIsCharLength ==
    pc \in {"subsume", "cover_init"} =>
        \A l \in {visit, kept} :
            \A j, k \in 1..Len(l) :
                j < k => \/ Len(l[j].text) > Len(l[k].text)
                         \/ /\ Len(l[j].text) = Len(l[k].text)
                            /\ l[j].original_index < l[k].original_index

\* C25: _filter_subsumed visits candidates in descending order of
\* token_length, candidates of equal token length by higher score first
\* and remaining ties by a stable insertion key; its output list is in
\* that order.
C25_VisitOrder ==
    pc \in {"subsume", "cover_init"} =>
        \A l \in {visit, kept} :
            \A j, k \in 1..Len(l) :
                j < k => BeforeByTokensScoreKey(l[j], l[k])

\* C26: the rule list extract returns has exactly one rule per candidate
\* the greedy selector selected, in selection order: the pick of round k
\* is put at position k of selected and stays there, and rule i is built
\* from the text and score of the i-th selected candidate.
C26_RulesInSelectionOrder ==
    [][/\ (pc = "cover" /\ selected' # selected) =>
             /\ round' = round + 1
             /\ Len(selected') = round'
             /\ SubSeq(selected', 1, Len(selected)) = selected
       /\ (pc = "build" /\ pc' = "done") =>
             /\ selected' = selected
             /\ Len(rules') = Len(selected)
             /\ \A i \in 1..Len(selected) :
                   /\ rules'[i].text = selected[i].text
                   /\ rules'[i].score = selected[i].score]_vars

\* Two rules were returned, for two phrases picked in two rounds, with
\* scores below 1.0
C26_Witness ==
    /\ pc = "done"
    /\ result = "returned"
    /\ round = 2
    /\ Len(rules) = 2
    /\ rules[1].text # rules[2].text
    /\ rules[1].score < Scale

\* c is one of the elements of the list l
IsElement(c, l) == \E j \in 1..Len(l) : l[j] = c

\* C27: the filtering stages only discard candidates: every candidate
\* _filter_subsumed accepts or returns is one of its input, unchanged and
\* at most once; every candidate _greedy_set_cover selects is the one at
\* its position of the input, with the same text, score and presence-column
\* index, and the input is left as it was; so every returned rule is a
\* scored vocabulary phrase with score >= score_threshold.
C27_FiltersOnlyDiscard ==
    [][/\ pc = "subsume" =>
             /\ \A k \in 1..Len(kept') : IsElement(kept'[k], candidates)
             /\ \A k \in 1..Len(candidates') : IsElement(candidates'[k], candidates)
             /\ \A j, k \in 1..Len(kept') :
                   j # k => kept'[j].original_index # kept'[k].original_index
       /\ pc = "cover" =>
             /\ candidates' = candidates
             /\ \A k \in 1..Len(selected') :
                   /\ selected'[k].idx \in 1..Len(candidates)
                   /\ selected'[k].text = candidates[selected'[k].idx].text
                   /\ selected'[k].score = candidates[selected'[k].idx].score
                   /\ selected'[k].original_index =
                         candidates[selected'[k].idx].original_index
       /\ pc = "build" =>
             \A i \in 1..Len(rules') :
                /\ rules'[i].score >= config.score_threshold
                /\ \E c \in 1..Len(scores) :
                      /\ feature_names[c] = rules'[i].text
                      /\ scores[c] = rules'[i].score]_vars

\* Rules were returned after both stages discarded something: not every
\* vocabulary phrase came out of subsumption, the selector passed over a
\* candidate and picked one whose list position is not its column
C27_Witness ==
    /\ pc = "done"
    /\ result = "returned"
    /\ Len(rules) >= 1
    /\ Len(selected) < Len(candidates)
    /\ Len(kept) < Len(feature_names)
    /\ \E i \in 1..Len(selected) : selected[i].idx # selected[i].original_index

\* min(a, b)
MinOf(a, b) == IF a <= b THEN a ELSE b

\* C28: a run of the prepare command's write loop that returns, on a
\* stream of N samples: with a positive --limit L the output holds exactly
\* the lines of the first min(L, N) samples, in stream order, and no
\* further sample was taken from the stream; with no limit it holds the
\* lines of all N.
C28_PrepareLimit ==
    (prep_pc = "exited" /\ prep_exit = 0) =>
        LET N == Len(stream)
            L == prep_args.limit
            written_n == IF L = NoLimit THEN N ELSE MinOf(L, N)
        IN (L = NoLimit \/ L > 0) =>
              /\ Len(out_file) = written_n
              /\ \A i \in 1..written_n :
                    /\ out_file[i].json.text = stream[i].text
                    /\ out_file[i].json.source = stream[i].source
              /\ pulled = written_n
              /\ prep_count = written_n

\* A limit of 2 cut a stream of 3 different samples short, on a file that
\* held a line before
C28_Witness ==
    /\ prep_pc = "exited"
    /\ prep_exit = 0
    /\ prep_args.limit = 2
    /\ Len(stream) = 3
    /\ stream[1] # stream[2]
    /\ stream[2] # stream[3]
    /\ Len(out_file) = 2
    /\ pulled = 2

\* No limit: all three samples of the stream were written
C28_WitnessNoLimit ==
    /\ prep_pc = "exited"
    /\ prep_exit = 0
    /\ prep_args.limit = NoLimit
    /\ Len(stream) = 3
    /\ Len(out_file) = 3

\* What the deduplication step leaves of the extracted list
AfterDeduplication ==
    IF existing_rules = "present" THEN KeepNew(extracted, existing_payloads)
    ELSE extracted

\* C29: in the generate command the writer is invoked exactly once per
\* successful run, with the rule list as extraction and deduplication left
\* it, the empty list included; a step that raises ends the run with exit
\* status 1 at once; the writer is not invoked before the output step nor
\* after a failure, and nothing happens after the exit.
C29_WriterOnce ==
    /\ [](/\ exit_code = -1 => written = <<>> /\ error = NoError
          /\ exit_code = 0 =>
                /\ error = NoError
                /\ written = <<AfterDeduplication>>
          /\ exit_code = 1 =>
                /\ error # NoError
                /\ IF error.name = "writer"
                   THEN written = <<AfterDeduplication>>
                   ELSE written = <<>>)
    /\ [][/\ (error = NoError /\ error' # NoError) => exit_code' = 1
          /\ written' # written => cmd_pc = "write"
          /\ exit_code # -1 => UNCHANGED <<written, exit_code, error>>]_vars

\* A successful run whose rule list deduplication emptied: the writer was
\* called once, with the empty list
C29_Witness ==
    /\ exit_code = 0
    /\ Len(extracted) > 0
    /\ written = << <<>> >>

\* The writer raised: exit status 1 after its one invocation
C29_WitnessWriterRaises ==
    /\ exit_code = 1
    /\ error.name = "writer"
    /\ Len(written) = 1

\* Deduplication raised: exit status 1 and the writer never invoked
C29_WitnessDeduplicationRaises ==
    /\ exit_code = 1
    /\ error.name = "parse_existing_rules"
    /\ Len(extracted) > 0
    /\ written = <<>>

\* C30: _filter_subsumed is idempotent and never empties a non-empty input:
\* what it returns is the function value of its input, applying it to that
\* output returns the same list, and for a non-empty input the output
\* begins with the first of the longest candidates.
C30_FilterIdempotent ==
    [][(pc = "subsume" /\ pc' = "cover_init") =>
          /\ candidates' = FilterSubsumed(candidates)
          /\ FilterSubsumed(candidates') = candidates'
          /\ Len(candidates) > 0 =>
                /\ Len(candidates') > 0
                /\ IsElement(candidates'[1], candidates)
                /\ \A j \in 1..Len(candidates) :
                      Len(candidates'[1].text) >= Len(candidates[j].text)]_vars

\* The filter has returned two candidates after dropping another
C30_Witness ==
    /\ pc = "cover_init"
    /\ Len(visit) = 0
    /\ candidates = kept
    /\ Len(kept) >= 2
    /\ \E c \in 1..Len(scores) :
          /\ scores[c] >= config.score_threshold
          /\ ~IsElement([text |-> feature_names[c], score |-> scores[c],
                         original_index |-> c], kept)

\* The filter has returned two candidates of the same length
C30_WitnessEqualLength ==
    /\ pc = "cover_init"
    /\ candidates = kept
    /\ \E j, k \in 1..Len(kept) :
          /\ j < k
          /\ Len(kept[j].text) = Len(kept[k].text)

====
